---- MODULE Spec2Model ----
(***************************************************************************)
(* A model of inat.orders.py: the RateLimiter, make_api_request (retry and *)
(* backoff), get_observation_taxonomy (the ancestry walk) and the batch    *)
(* loop of main.  The program is single threaded; pc is the position of    *)
(* that thread.  Times are in ticks of 1/64 second, so that the factor 1.5 *)
(* of line 95 is exact on every value the model reaches.  The clock is     *)
(* exact and moves in the sleeps only: a request takes no time.            *)
(***************************************************************************)
EXTENDS Integers, Sequences, FiniteSets, Bags, TLC

VARIABLES
    args,              \* the parsed command line (lines 218-237)
    now,               \* time.time()
    rate_limiter,      \* the global RateLimiter instance (line 42)
    wait_time,         \* wait_and_increment's wait_time (line 26), 0 when it did not sleep
    pc,                \* position of the single thread
    req,               \* frame of the running make_api_request call; retry_after is the
                       \* header of the 429 response being handled (line 82)
    ret,               \* what the last make_api_request call returned or raised
    slept,             \* backoff slept by the last response handler (lines 92, 108)
    remote,            \* the remote: failing responses it may still give, longest ancestry
    res,               \* frame of the running get_observation_taxonomy call
    result,            \* the tuple get_observation_taxonomy returned
    m,                 \* frame of main: loop positions, counters, failed_observations
    dispatched,        \* ids passed to get_observation_taxonomy, in order
    calls_left         \* calls of make_api_request a direct caller has still to make

vars == <<args, now, rate_limiter, wait_time, pc, req, ret, slept, remote, res,
          result, m, dispatched, calls_left>>

-----------------------------------------------------------------------------
(* Bounds of the model *)

NumIds == 2
MaxAncestry == 3
MaxResolveFaults == 2
MaxRetries == 3
MaxDirectCalls == 1
StartTime == 7

(* Program constants *)

DefaultRetries == 5
DefaultRetryDelaySec == 5
DefaultMaxBackoffSec == 120
MinDelayCapSec == 10
DefaultMaxDelaySec == 10

Sec(n) == n * 64

None == "<None>"
NonStringRank == "<number>"

Min(a, b) == IF a < b THEN a ELSE b
Max(a, b) == IF a > b THEN a ELSE b

RECURSIVE Pow2(_)
Pow2(n) == IF n = 0 THEN 1 ELSE 2 * Pow2(n - 1)

(* Python truthiness of an optional string: None and "" are falsy. *)
Truthy(x) == x # None /\ x # ""

-----------------------------------------------------------------------------
(* The remote service *)

(* The taxa the snapshot holds, by id: /v1/taxa/{id} -> results[0].{rank,name} *)
TaxonIds == {"1", "2", "3"}

Taxa(id) ==
    CASE id = <<"1">> -> [rank |-> "kingdom", name |-> "Fungi"]
      [] id = <<"2">> -> [rank |-> "order", name |-> "Agaricales"]
      [] id = <<"3">> -> [rank |-> "family", name |-> "Amanitaceae"]
      [] OTHER -> [rank |-> None, name |-> None]

(* the sequences of up to n different elements of S: an ancestry is a path of the
   taxon tree and names no taxon twice *)
RECURSIVE SeqsUpTo(_, _)
SeqsUpTo(S, n) ==
    IF n = 0 THEN {<<>>}
    ELSE LET shorter == SeqsUpTo(S, n - 1)
             longest == {t \in shorter : Len(t) = n - 1}
             fresh == {q \in longest \X S : \A k \in 1..Len(q[1]) : q[1][k] # q[2]}
         IN shorter \cup {Append(q[1], q[2]) : q \in fresh}

(* "1/2/3": the ids joined by slashes, one character per element *)
RECURSIVE Join(_)
Join(ids) ==
    IF Len(ids) = 0 THEN <<>>
    ELSE IF Len(ids) = 1 THEN <<Head(ids)>>
    ELSE <<Head(ids), "/">> \o Join(Tail(ids))

Ancestries(depth) == {Join(ids) : ids \in SeqsUpTo(TaxonIds, depth)}

(* str.split('/') of a non-empty string: the segments between the slashes *)
RECURSIVE SplitFrom(_, _)
SplitFrom(s, cur) ==
    IF Len(s) = 0 THEN <<cur>>
    ELSE IF Head(s) = "/" THEN <<cur>> \o SplitFrom(Tail(s), <<>>)
    ELSE SplitFrom(Tail(s), Append(cur, Head(s)))

Split(s) == SplitFrom(s, <<>>)

ObservedRanks == {None, "species", "order", "family", NonStringRank}
ObservedNames == {None, "Boletales"}

NoDoc == [has_results |-> FALSE, has_taxon |-> FALSE, rank |-> None, name |-> None,
          ancestry |-> <<>>]

(* What GET /v1/observations/{id} may answer with status 200 and a JSON object *)
ObservationDocs(depth) ==
    {NoDoc, [NoDoc EXCEPT !.has_results = TRUE]}
    \cup {[has_results |-> TRUE, has_taxon |-> TRUE, rank |-> r, name |-> n, ancestry |-> a] :
            r \in ObservedRanks, n \in ObservedNames, a \in Ancestries(depth)}

(* What GET /v1/taxa/{id} may answer with status 200 and a JSON object *)
TaxonDocs(id) ==
    {NoDoc,
     [has_results |-> TRUE, has_taxon |-> TRUE, rank |-> Taxa(id).rank,
      name |-> Taxa(id).name, ancestry |-> <<>>]}

Docs(url) ==
    IF url.kind = "observations"
    THEN ObservationDocs(remote.max_ancestry)
    ELSE TaxonDocs(url.id)

(* Retry-After of a 429 response: absent, a number of seconds, or not a number *)
RetryAfterHeaders == {"absent", "30", "soon"}

-----------------------------------------------------------------------------
(* RateLimiter (lines 7-39) *)

NewRateLimiter == [min_delay |-> Sec(1), last_call_time |-> 0, call_count |-> 0]

(* WaitTime, sleeping the time that has passed and not the time that is left *)
WaitTimeElapsed(rl, t) ==
    LET elapsed == t - rl.last_call_time
    IN IF rl.last_call_time > 0 /\ elapsed < rl.min_delay
       THEN elapsed
       ELSE 0

(* lines 21-26: how long wait_and_increment sleeps at time t *)
WaitTime(rl, t) ==
    LET elapsed == t - rl.last_call_time
    IN IF rl.last_call_time > 0 /\ elapsed < rl.min_delay
       THEN rl.min_delay - elapsed
       ELSE 0

(* lines 17-33, called at line 59 by the running make_api_request *)
WaitAndIncrement ==
    /\ pc = "wait"
    /\ wait_time' = WaitTime(rate_limiter, now)
    /\ now' = now + wait_time'
    /\ rate_limiter' = [rate_limiter EXCEPT !.last_call_time = now',
                                            !.call_count = @ + 1]
    /\ slept' = 0
    /\ req' = [req EXCEPT !.retry_after = None]
    /\ pc' = "get"
    /\ UNCHANGED <<args, ret, remote, res, result, m, dispatched, calls_left>>

-----------------------------------------------------------------------------
(* make_api_request (lines 44-113) *)

NoRet == [kind |-> "pending", doc |-> NoDoc, exc |-> None]
Returned(doc) == [kind |-> "json", doc |-> doc, exc |-> None]
ReturnedNone == [kind |-> "none", doc |-> NoDoc, exc |-> None]
Raised(exc) == [kind |-> "raise", doc |-> NoDoc, exc |-> exc]

NoReq == [url |-> [kind |-> "none", id |-> <<>>], min_delay |-> 0, retries |-> 0,
          retry_delay |-> 0, max_backoff |-> 0, attempt |-> 0, requests |-> 0,
          retry_after |-> None, caller |-> "none"]

(* range(retries) of line 57 still has an element for this attempt number *)
InRange(attempt, retries) == attempt < retries

(* lines 55-57: the call sets the limiter's delay and enters the loop; with an
   empty range the function falls off its end and returns None *)
EnterMakeApiRequest(url, min_delay, retries, retry_delay, max_backoff, caller) ==
    /\ rate_limiter' = [rate_limiter EXCEPT !.min_delay = min_delay]
    /\ req' = [url |-> url, min_delay |-> min_delay, retries |-> retries,
               retry_delay |-> retry_delay, max_backoff |-> max_backoff,
               attempt |-> 0, requests |-> 0, retry_after |-> None,
               caller |-> caller]
    /\ slept' = 0
    /\ IF InRange(0, retries)
       THEN pc' = "wait" /\ ret' = NoRet
       ELSE pc' = "ret" /\ ret' = ReturnedNone

(* line 79 and line 104 *)
Backoff(retry_delay, attempt, max_backoff) ==
    Min(retry_delay * Pow2(attempt), max_backoff)

(* float(retry_after) of line 85, in ticks; -1 when it raises ValueError *)
ParseFloat(header) == IF header = "30" THEN Sec(30) ELSE -1

(* WithRetryAfter, sleeping the hint in place of the larger of the two *)
WithRetryAfterOnly(header, backoff_time) ==
    IF header # "absent" /\ ParseFloat(header) >= 0
    THEN ParseFloat(header)
    ELSE backoff_time

(* lines 82-87 *)
WithRetryAfter(header, backoff_time) ==
    IF header # "absent" /\ ParseFloat(header) >= 0
    THEN Max(ParseFloat(header), backoff_time)
    ELSE backoff_time

(* line 95 *)
RaisedMinDelay(min_delay) == Min((min_delay * 3) \div 2, Sec(MinDelayCapSec))

(* line 77 and line 103 *)
RetriesLeft(attempt, retries) == attempt < retries - 1

(* line 65 answered with status 200 and a JSON body: lines 73-74 *)
RespondJson ==
    /\ pc = "get"
    /\ \E doc \in Docs(req.url) : ret' = Returned(doc)
    /\ req' = [req EXCEPT !.requests = @ + 1]
    /\ pc' = "ret"
    /\ wait_time' = 0
    /\ UNCHANGED <<args, now, rate_limiter, slept, remote, res, result, m, dispatched,
                   calls_left>>

(* status 200 with a body json() cannot parse: lines 74, 111-113.  The exception is
   a ValueError, and in newer versions of requests also a RequestException. *)
RespondMalformed ==
    /\ pc = "get"
    /\ remote.faults > 0
    /\ remote' = [remote EXCEPT !.faults = @ - 1]
    /\ \E exc \in {"ValueError", "JSONDecodeError"} : ret' = Raised(exc)
    /\ req' = [req EXCEPT !.requests = @ + 1]
    /\ pc' = "ret"
    /\ wait_time' = 0
    /\ UNCHANGED <<args, now, rate_limiter, slept, res, result, m, dispatched, calls_left>>

(* status 429: lines 75-100 *)
Respond429 ==
    /\ pc = "get"
    /\ remote.faults > 0
    /\ remote' = [remote EXCEPT !.faults = @ - 1]
    /\ \E header \in RetryAfterHeaders :
        IF RetriesLeft(req.attempt, req.retries)
        THEN LET backoff_time ==
                    WithRetryAfter(header,
                        Backoff(req.retry_delay, req.attempt, req.max_backoff))
             IN /\ now' = now + backoff_time
                /\ slept' = backoff_time
                /\ rate_limiter' = [rate_limiter EXCEPT
                                        !.min_delay = RaisedMinDelay(@)]
                /\ req' = [req EXCEPT !.attempt = @ + 1, !.requests = @ + 1,
                                      !.retry_after = header]
                /\ pc' = "wait"
                /\ UNCHANGED ret
        ELSE /\ ret' = Raised("HTTPError")
             /\ req' = [req EXCEPT !.requests = @ + 1]
             /\ pc' = "ret"
             /\ UNCHANGED <<now, slept, rate_limiter>>
    /\ wait_time' = 0
    /\ UNCHANGED <<args, res, result, m, dispatched, calls_left>>

(* RespondHttpError, handling every error status as line 76 handles 429 *)
RespondHttpErrorRetried ==
    /\ pc = "get"
    /\ remote.faults > 0
    /\ remote' = [remote EXCEPT !.faults = @ - 1]
    /\ IF RetriesLeft(req.attempt, req.retries)
       THEN LET backoff_time == Backoff(req.retry_delay, req.attempt, req.max_backoff)
            IN /\ now' = now + backoff_time
               /\ slept' = backoff_time
               /\ rate_limiter' = [rate_limiter EXCEPT !.min_delay = RaisedMinDelay(@)]
               /\ req' = [req EXCEPT !.attempt = @ + 1, !.requests = @ + 1]
               /\ pc' = "wait"
               /\ UNCHANGED ret
       ELSE /\ ret' = Raised("HTTPError")
            /\ req' = [req EXCEPT !.requests = @ + 1]
            /\ pc' = "ret"
            /\ UNCHANGED <<now, slept, rate_limiter>>
    /\ wait_time' = 0
    /\ UNCHANGED <<args, res, result, m, dispatched, calls_left>>

(* any other error status: lines 75-76, 100 *)
RespondHttpError ==
    /\ pc = "get"
    /\ remote.faults > 0
    /\ remote' = [remote EXCEPT !.faults = @ - 1]
    /\ ret' = Raised("HTTPError")
    /\ req' = [req EXCEPT !.requests = @ + 1]
    /\ pc' = "ret"
    /\ wait_time' = 0
    /\ UNCHANGED <<args, now, rate_limiter, slept, res, result, m, dispatched, calls_left>>

(* RespondConnectionError, raising min_delay as line 95 does for a 429 *)
RespondConnectionErrorEscalating ==
    /\ pc = "get"
    /\ remote.faults > 0
    /\ remote' = [remote EXCEPT !.faults = @ - 1]
    /\ IF RetriesLeft(req.attempt, req.retries)
       THEN LET backoff_time == Backoff(req.retry_delay, req.attempt, req.max_backoff)
            IN /\ now' = now + backoff_time
               /\ slept' = backoff_time
               /\ rate_limiter' = [rate_limiter EXCEPT !.min_delay = RaisedMinDelay(@)]
               /\ req' = [req EXCEPT !.attempt = @ + 1, !.requests = @ + 1]
               /\ pc' = "wait"
               /\ UNCHANGED ret
       ELSE /\ ret' = Raised("ConnectionError")
            /\ req' = [req EXCEPT !.requests = @ + 1]
            /\ pc' = "ret"
            /\ UNCHANGED <<now, slept, rate_limiter>>
    /\ wait_time' = 0
    /\ UNCHANGED <<args, res, result, m, dispatched, calls_left>>

(* the connection fails: lines 101-110 *)
RespondConnectionError ==
    /\ pc = "get"
    /\ remote.faults > 0
    /\ remote' = [remote EXCEPT !.faults = @ - 1]
    /\ IF RetriesLeft(req.attempt, req.retries)
       THEN LET backoff_time == Backoff(req.retry_delay, req.attempt, req.max_backoff)
            IN /\ now' = now + backoff_time
               /\ slept' = backoff_time
               /\ req' = [req EXCEPT !.attempt = @ + 1, !.requests = @ + 1]
               /\ pc' = "wait"
               /\ UNCHANGED ret
       ELSE /\ ret' = Raised("ConnectionError")
            /\ req' = [req EXCEPT !.requests = @ + 1]
            /\ pc' = "ret"
            /\ UNCHANGED <<now, slept>>
    /\ wait_time' = 0
    /\ UNCHANGED <<args, rate_limiter, res, result, m, dispatched, calls_left>>

(* requests.exceptions.RequestException and its subclasses (line 186) *)
IsRequestException(exc) == exc \in {"HTTPError", "ConnectionError", "JSONDecodeError"}

-----------------------------------------------------------------------------
(* get_observation_taxonomy (lines 122-189) *)

NoResult == [order_name |-> None, family_name |-> None, error |-> None,
             current_rank |-> None, current_rank_name |-> None]

NoRes == [observation_id |-> 0, min_delay |-> 0, include_family |-> FALSE,
          order_name |-> None, family_name |-> None, current_rank |-> None,
          current_rank_name |-> None, ancestor_ids |-> <<>>, i |-> 0, fetches |-> 0,
          hits |-> 0, failed |-> <<>>]

(* lines 133, 137, 187, 189 *)
ErrorResult(message) == [NoResult EXCEPT !.error = message]

(* OwnOrder, comparing the rank with the capitalized word *)
OwnOrderCapitalized(doc) == IF doc.rank = "Order" THEN doc.name ELSE None

(* lines 148-149 *)
OwnOrder(doc) == IF doc.rank = "order" THEN doc.name ELSE None

(* lines 150-151 *)
OwnFamily(doc) == IF doc.rank # "order" /\ doc.rank = "family" THEN doc.name ELSE None

(* line 156 *)
NoAncestryResult(order_name, family_name, current_rank, current_rank_name) ==
    [order_name |-> order_name, family_name |-> family_name,
     error |-> "No ancestry information available",
     current_rank |-> current_rank, current_rank_name |-> current_rank_name]

(* line 162 *)
NeedWalk(order_name, family_name, include_family) ==
    ~Truthy(order_name) \/ (include_family /\ ~Truthy(family_name))

(* Satisfied, without the family *)
SatisfiedOrderOnly(order_name, family_name, include_family) == Truthy(order_name)

(* line 174 *)
Satisfied(order_name, family_name, include_family) ==
    Truthy(order_name) /\ (~include_family \/ Truthy(family_name))

(* FinalResult, returning no family with the error *)
FinalResultDropFamily(order_name, family_name, current_rank, current_rank_name) ==
    IF ~Truthy(order_name)
    THEN [order_name |-> None, family_name |-> None,
          error |-> "Could not find order in ancestry chain",
          current_rank |-> current_rank, current_rank_name |-> current_rank_name]
    ELSE [order_name |-> order_name, family_name |-> family_name, error |-> None,
          current_rank |-> current_rank, current_rank_name |-> current_rank_name]

(* lines 182-184 *)
FinalResult(order_name, family_name, current_rank, current_rank_name) ==
    IF ~Truthy(order_name)
    THEN [order_name |-> None, family_name |-> family_name,
          error |-> "Could not find order in ancestry chain",
          current_rank |-> current_rank, current_rank_name |-> current_rank_name]
    ELSE [order_name |-> order_name, family_name |-> family_name, error |-> None,
          current_rank |-> current_rank, current_rank_name |-> current_rank_name]

(* lines 115-120: get_taxon_info passes only the url and min_delay *)
GetTaxonInfo(taxon_id, min_delay) ==
    EnterMakeApiRequest([kind |-> "taxa", id |-> taxon_id], min_delay,
                        DefaultRetries, Sec(DefaultRetryDelaySec),
                        Sec(DefaultMaxBackoffSec), "ancestor")

(* the function returns its tuple to main; the frame of the finished
   make_api_request call is gone *)
ReturnResult(tuple) ==
    /\ result' = tuple
    /\ req' = NoReq
    /\ ret' = NoRet
    /\ slept' = 0
    /\ pc' = "classify"

(* line 130 returned or raised: lines 129-162 and 181-189 *)
ObservationFetched ==
    /\ pc = "ret"
    /\ req.caller = "observation"
    /\ LET doc == ret.doc
           order_name == OwnOrder(doc)
           family_name == OwnFamily(doc)
       IN IF ret.kind = "raise"
          THEN /\ ReturnResult(ErrorResult(IF IsRequestException(ret.exc)
                                           THEN "API request failed"
                                           ELSE "Error processing observation"))
               /\ UNCHANGED <<res, rate_limiter>>
          ELSE IF ret.kind = "none"
          THEN /\ ReturnResult(ErrorResult("Error processing observation"))
               /\ UNCHANGED <<res, rate_limiter>>
          ELSE IF ~doc.has_results
          THEN /\ ReturnResult(ErrorResult("No results found"))
               /\ UNCHANGED <<res, rate_limiter>>
          ELSE IF ~doc.has_taxon
          THEN /\ ReturnResult(ErrorResult("No taxonomic information available"))
               /\ UNCHANGED <<res, rate_limiter>>
          ELSE IF doc.ancestry = <<>>
          THEN /\ ReturnResult(NoAncestryResult(order_name, family_name,
                                                doc.rank, doc.name))
               /\ res' = [res EXCEPT !.order_name = order_name,
                                     !.family_name = family_name,
                                     !.current_rank = doc.rank,
                                     !.current_rank_name = doc.name]
               /\ UNCHANGED rate_limiter
          ELSE IF NeedWalk(order_name, family_name, res.include_family)
          THEN /\ res' = [res EXCEPT !.order_name = order_name,
                                     !.family_name = family_name,
                                     !.current_rank = doc.rank,
                                     !.current_rank_name = doc.name,
                                     !.ancestor_ids = Split(doc.ancestry),
                                     !.i = 1, !.fetches = 1]
               /\ GetTaxonInfo(Split(doc.ancestry)[1], res.min_delay)
               /\ UNCHANGED result
          ELSE /\ ReturnResult(FinalResult(order_name, family_name, doc.rank, doc.name))
               /\ res' = [res EXCEPT !.order_name = order_name,
                                     !.family_name = family_name,
                                     !.current_rank = doc.rank,
                                     !.current_rank_name = doc.name,
                                     !.ancestor_ids = Split(doc.ancestry)]
               /\ UNCHANGED rate_limiter
    /\ UNCHANGED <<args, now, wait_time, remote, m, dispatched, calls_left>>

(* line 166: the answer carries a taxon *)
HasResults(info) == info.kind = "json" /\ info.doc.has_results

(* lines 166-171: the names after one ancestor's answer *)
OrderAfter(order_name, info) ==
    IF HasResults(info)
       /\ info.doc.rank = "order" /\ ~Truthy(order_name)
    THEN info.doc.name
    ELSE order_name

FamilyAfter(order_name, family_name, include_family, info) ==
    IF HasResults(info)
       /\ ~(info.doc.rank = "order" /\ ~Truthy(order_name))
       /\ include_family /\ info.doc.rank = "family" /\ ~Truthy(family_name)
    THEN info.doc.name
    ELSE family_name

(* Break, without the break *)
BreakNever(order_name, family_name, include_family, info) == FALSE

(* Break, a failed fetch ending the walk too *)
BreakOnFailure(order_name, family_name, include_family, info) ==
    \/ info.kind = "raise"
    \/ /\ HasResults(info)
       /\ Satisfied(order_name, family_name, include_family)

(* lines 173-175: the walk stops after this ancestor *)
Break(order_name, family_name, include_family, info) ==
    /\ HasResults(info)
    /\ Satisfied(order_name, family_name, include_family)

(* lines 176-179: the last ancestor whose fetch raised, as <<its position in
   ancestor_ids, the requests that fetch issued>> *)
FailedAfter(failed, i, info, requests) ==
    IF info.kind = "raise" THEN <<i, requests>> ELSE failed

(* line 165 returned or raised: lines 163-184.  A failure, and the AttributeError of
   a None document, are caught at line 176 and the loop goes on. *)
AncestorFetched ==
    /\ pc = "ret"
    /\ req.caller = "ancestor"
    /\ LET order_name == OrderAfter(res.order_name, ret)
           family_name == FamilyAfter(res.order_name, res.family_name,
                                      res.include_family, ret)
       IN IF ~Break(order_name, family_name, res.include_family, ret)
             /\ res.i < Len(res.ancestor_ids)
          THEN /\ res' = [res EXCEPT !.order_name = order_name,
                                     !.family_name = family_name,
                                     !.i = @ + 1, !.fetches = @ + 1,
                                     !.hits = IF HasResults(ret) THEN @ + 1 ELSE @,
                                     !.failed = FailedAfter(@, res.i, ret, req.requests)]
               /\ GetTaxonInfo(res.ancestor_ids[res.i + 1], res.min_delay)
               /\ UNCHANGED result
          ELSE /\ res' = [res EXCEPT !.order_name = order_name,
                                     !.family_name = family_name,
                                     !.hits = IF HasResults(ret) THEN @ + 1 ELSE @,
                                     !.failed = FailedAfter(@, res.i, ret, req.requests)]
               /\ ReturnResult(FinalResult(order_name, family_name, res.current_rank,
                                           res.current_rank_name))
               /\ UNCHANGED rate_limiter
    /\ UNCHANGED <<args, now, wait_time, remote, m, dispatched, calls_left>>

-----------------------------------------------------------------------------
(* main (lines 191-368) *)

(* s[i:j] of Python, 0-based, the end clamped to the length *)
Slice(s, i, j) == SubSeq(s, i + 1, Min(j, Len(s)))

(* list.index (line 254): the first position of x, 0-based; -1 stands for ValueError *)
IndexOf(s, x) ==
    IF \E k \in 1..Len(s) : s[k] = x
    THEN (CHOOSE k \in 1..Len(s) : s[k] = x /\ \A j \in 1..(k - 1) : s[j] # x) - 1
    ELSE -1

(* lines 249-257 *)
StartIndex(ids, resume_from) ==
    IF resume_from # 0 /\ IndexOf(ids, resume_from) >= 0
    THEN IndexOf(ids, resume_from)
    ELSE 0

(* ObservationBatches, dropping a last batch that is not full *)
ObservationBatchesFullOnly(ids, start_index, batch_size) ==
    LET rest == Slice(ids, start_index, Len(ids))
        count == Len(rest) \div batch_size
    IN [b \in 1..count |-> Slice(rest, (b - 1) * batch_size, (b - 1) * batch_size + batch_size)]

(* lines 260-263: the batches, as the list comprehension builds them *)
ObservationBatches(ids, start_index, batch_size) ==
    LET rest == Slice(ids, start_index, Len(ids))
        total_observations == Len(rest)
        count == (total_observations + batch_size - 1) \div batch_size
    IN [b \in 1..count |-> Slice(rest, (b - 1) * batch_size, (b - 1) * batch_size + batch_size)]

Batches == ObservationBatches(args.observation_ids, m.start_index, args.batch_size)

(* the ids given on the command line: n of them, in order *)
IdList(n) == [k \in 1..n |-> 100 + k]

(* lines 239-268: a Counter is a bag of its keys, order_family_map a bag of
   <<order, family>> pairs *)
NewMain(a) ==
    [start_index |-> StartIndex(a.observation_ids, a.resume_from),
     batch_num |-> 0,
     obs_i |-> 0,
     order_counter |-> EmptyBag,
     unknown_order_count |-> 0,
     order_family_map |-> EmptyBag,
     unknown_family_by_order |-> EmptyBag,
     unknown_family_unknown_order_count |-> 0,
     failed_observations |-> <<>>,
     pauses |-> 0]

(* PauseBefore, pausing before the first batch too *)
PauseBeforeEvery(batch_num, batch_pause) == batch_pause > 0

(* line 275 *)
PauseBefore(batch_num, batch_pause) == batch_num > 0 /\ batch_pause > 0

(* lines 271-277: the head of the batch loop *)
BatchLoop ==
    /\ pc = "batch"
    /\ IF m.batch_num < Len(Batches)
       THEN /\ IF PauseBefore(m.batch_num, args.batch_pause)
               THEN /\ now' = now + args.batch_pause
                    /\ m' = [m EXCEPT !.obs_i = 0, !.pauses = @ + 1]
               ELSE /\ now' = now
                    /\ m' = [m EXCEPT !.obs_i = 0]
            /\ pc' = "obs"
       ELSE /\ pc' = "done"
            /\ UNCHANGED <<now, m>>
    /\ UNCHANGED <<args, rate_limiter, wait_time, req, ret, slept, remote, res, result,
                   dispatched, calls_left>>

(* lines 280-284 and 128-130: the head of the observation loop; the next id is
   passed to get_observation_taxonomy, which fetches the observation *)
ObservationLoop ==
    /\ pc = "obs"
    /\ LET batch_obs_ids == Batches[m.batch_num + 1]
       IN IF m.obs_i < Len(batch_obs_ids)
          THEN LET obs_id == batch_obs_ids[m.obs_i + 1]
               IN /\ dispatched' = Append(dispatched, obs_id)
                  /\ res' = [NoRes EXCEPT !.observation_id = obs_id,
                                          !.min_delay = args.delay,
                                          !.include_family = args.family]
                  /\ EnterMakeApiRequest([kind |-> "observations", id |-> <<>>],
                                         args.delay, DefaultRetries,
                                         Sec(DefaultRetryDelaySec),
                                         Sec(DefaultMaxBackoffSec), "observation")
                  /\ UNCHANGED m
          ELSE /\ m' = [m EXCEPT !.batch_num = @ + 1]
               /\ pc' = "batch"
               /\ UNCHANGED <<dispatched, res, rate_limiter, req, ret, slept>>
    /\ UNCHANGED <<args, now, wait_time, remote, result, calls_left>>

(* line 289: str.capitalize raises AttributeError on a rank that is no string *)
CapitalizeRaises(current_rank) == current_rank = NonStringRank

(* CountError, counting the unknown family only *)
CountErrorFamilyOnly(mm, family) ==
    [mm EXCEPT !.unknown_family_unknown_order_count = IF family THEN @ + 1 ELSE @]

(* CountError, counting the unknown order only *)
CountErrorOrderOnly(mm, family) ==
    [mm EXCEPT !.unknown_order_count = @ + 1]

(* lines 286-300: an error result *)
CountError(mm, family) ==
    [mm EXCEPT !.unknown_order_count = @ + 1,
               !.unknown_family_unknown_order_count = IF family THEN @ + 1 ELSE @]

(* lines 301-315: a result with an order *)
CountOrder(mm, family, order_name, family_name) ==
    LET counted == [mm EXCEPT !.order_counter = @ (+) SetToBag({order_name})]
    IN IF family
       THEN IF Truthy(family_name)
            THEN [counted EXCEPT !.order_family_map =
                                    @ (+) SetToBag({<<order_name, family_name>>})]
            ELSE [counted EXCEPT !.unknown_family_by_order =
                                    @ (+) SetToBag({order_name})]
       ELSE counted

(* lines 316-324: the handler of an unexpected exception *)
CountException(mm, family, obs_id) ==
    [mm EXCEPT !.unknown_order_count = @ + 1,
               !.unknown_family_unknown_order_count = IF family THEN @ + 1 ELSE @,
               !.failed_observations = Append(@, obs_id)]

(* lines 282-324: the tuple is classified and counted *)
Classify ==
    /\ pc = "classify"
    /\ LET counted ==
            IF Truthy(result.error)
            THEN IF Truthy(result.current_rank) /\ Truthy(result.current_rank_name)
                    /\ CapitalizeRaises(result.current_rank)
                 THEN CountException(m, args.family, res.observation_id)
                 ELSE CountError(m, args.family)
            ELSE CountOrder(m, args.family, result.order_name, result.family_name)
       IN m' = [counted EXCEPT !.obs_i = @ + 1]
    /\ res' = NoRes
    /\ result' = NoResult
    /\ pc' = "obs"
    /\ UNCHANGED <<args, now, rate_limiter, wait_time, req, ret, slept, remote,
                   dispatched, calls_left>>

-----------------------------------------------------------------------------
(* The run of the program *)

(* the state after lines 218-268, for the command line a and a remote that may
   fail budget times and holds ancestries of up to depth ids; with calls > 0 the
   thread is not in main but calls make_api_request that many times *)
Start(a, budget, depth, calls) ==
    /\ args = a
    /\ now = StartTime
    /\ rate_limiter = [NewRateLimiter EXCEPT !.min_delay = a.delay]
    /\ wait_time = 0
    /\ pc = IF calls = 0 THEN "batch" ELSE "idle"
    /\ req = NoReq
    /\ ret = NoRet
    /\ slept = 0
    /\ remote = [faults |-> budget, max_ancestry |-> depth]
    /\ res = NoRes
    /\ result = NoResult
    /\ m = NewMain(a)
    /\ dispatched = <<>>
    /\ calls_left = calls

(* runs over several ids: observation_ids, --delay, --family, --batch-size,
   --batch-pause, --resume-from (0 when absent, an id of the list, an id that
   is not in it), --max-delay, --retries; the remote of these runs fails at most
   one request, and its taxa name at most their parent as ancestry *)
Init ==
    \E a \in [observation_ids : {IdList(NumIds)},
              delay : {Sec(1)},
              max_delay : {Sec(DefaultMaxDelaySec)},
              retries : {DefaultRetries},
              family : BOOLEAN,
              batch_size : {1, 2},
              batch_pause : {0, Sec(60)},
              resume_from : {0, 102, 100 + NumIds + 1}] : Start(a, 1, 1, 0)

(* runs over one id, against a remote that may fail more often *)
InitResolve ==
    \E a \in [observation_ids : {IdList(1)},
              delay : {Sec(1), Sec(12)},
              max_delay : {Sec(DefaultMaxDelaySec)},
              retries : {DefaultRetries},
              family : BOOLEAN,
              batch_size : {1},
              batch_pause : {0},
              resume_from : {0}] : Start(a, MaxResolveFaults, MaxAncestry, 0)

(* runs over one id with --retries 2, against a remote that may fail every
   attempt of one fetch; its taxa name at most two ancestors *)
InitExhaust ==
    \E a \in [observation_ids : {IdList(1)},
              delay : {Sec(1)},
              max_delay : {Sec(DefaultMaxDelaySec)},
              retries : {2},
              family : BOOLEAN,
              batch_size : {1},
              batch_pause : {0},
              resume_from : {0}] : Start(a, DefaultRetries, 2, 0)

(* make_api_request called on its own, with any parameters (line 44) *)
InitFetch ==
    \E delay \in {Sec(1), Sec(12)} :
        Start([observation_ids |-> IdList(1), delay |-> delay,
               max_delay |-> Sec(DefaultMaxDelaySec), retries |-> DefaultRetries,
               family |-> FALSE,
               batch_size |-> 1, batch_pause |-> 0, resume_from |-> 0],
              0, 1, MaxDirectCalls)

(* a caller passes every parameter of line 44; the remote may fail each attempt *)
CallDirect ==
    /\ pc = "idle"
    /\ calls_left > 0
    /\ calls_left' = calls_left - 1
    /\ \E min_delay \in {Sec(1), Sec(12)}, retries \in 0..MaxRetries,
          retry_delay \in {Sec(DefaultRetryDelaySec), Sec(40)},
          max_backoff \in {Sec(8), Sec(DefaultMaxBackoffSec)} :
        /\ EnterMakeApiRequest([kind |-> "observations", id |-> <<>>], min_delay,
                               retries, retry_delay, max_backoff, "direct")
        /\ remote' = [remote EXCEPT !.faults = retries]
    /\ UNCHANGED <<args, now, wait_time, res, result, m, dispatched>>

(* the direct caller takes what the call returned or raised *)
ReturnDirect ==
    /\ pc = "ret"
    /\ req.caller = "direct"
    /\ pc' = "idle"
    /\ req' = NoReq
    /\ ret' = NoRet
    /\ slept' = 0
    /\ UNCHANGED <<args, now, rate_limiter, wait_time, remote, res, result, m, dispatched,
                   calls_left>>

Next ==
    \/ BatchLoop
    \/ ObservationLoop
    \/ WaitAndIncrement
    \/ RespondJson
    \/ RespondMalformed
    \/ Respond429
    \/ RespondHttpError
    \/ RespondConnectionError
    \/ ObservationFetched
    \/ AncestorFetched
    \/ Classify

Spec == Init /\ [][Next]_vars

SpecResolve == InitResolve /\ [][Next]_vars

SpecExhaust == InitExhaust /\ [][Next]_vars

NextFetch ==
    \/ CallDirect
    \/ WaitAndIncrement
    \/ RespondJson
    \/ RespondMalformed
    \/ Respond429
    \/ RespondHttpError
    \/ RespondConnectionError
    \/ ReturnDirect

SpecFetch == InitFetch /\ [][NextFetch]_vars

-----------------------------------------------------------------------------
(* Properties *)

IsSet(x) == x # None

(* get_observation_taxonomy has returned and main has not yet counted the tuple *)
Resolved == pc = "classify"

(* C1: every result of get_observation_taxonomy has exactly one of order_name and
   error_message set, never both and never neither. *)
C1_ExactlyOneOfOrderAndError ==
    Resolved => (IsSet(result.order_name) # IsSet(result.error))

(* C2: a call of make_api_request with retries = 0 has issued exactly one request
   when it returns, and it returns a document or raises. *)
C2_ZeroRetriesOneRequest ==
    (pc = "ret" /\ req.caller = "direct" /\ req.retries = 0)
        => (req.requests = 1 /\ ret.kind \in {"json", "raise"})

(* C3: handling a 429 response never lowers the limiter's min_delay, whatever it
   was, and leaves it no greater than the maximum delay configured for the run. *)
C3_MinDelayRaisedAndCapped ==
    [][Respond429 => /\ rate_limiter'.min_delay >= rate_limiter.min_delay
                     /\ rate_limiter'.min_delay <= args.max_delay]_vars

(* C4: once a 429 response has raised min_delay above the configured delay, no later
   step of the run lowers it. *)
C4_RaisedMinDelayPersists ==
    [][rate_limiter.min_delay > args.delay
         => rate_limiter'.min_delay >= rate_limiter.min_delay]_vars

(* C5: a call of wait_and_increment records a time at least min_delay after the time
   the previous call recorded, and the first call of the process does not sleep. *)
C5_CallsSpacedByMinDelay ==
    [][WaitAndIncrement =>
         IF rate_limiter.call_count = 0
         THEN now' = now /\ rate_limiter'.last_call_time = now
         ELSE rate_limiter'.last_call_time - rate_limiter.last_call_time
                  >= rate_limiter.min_delay]_vars

(* a later call that slept for part of min_delay only *)
C5_Witness ==
    /\ pc = "get"
    /\ rate_limiter.call_count >= 2
    /\ wait_time > 0
    /\ wait_time < rate_limiter.min_delay

(* C6: while an ancestor is being fetched, the ranks the call needs are not all
   known: nothing is fetched once order (and family, when asked for) are found. *)
C6_NoFetchOnceSatisfied ==
    req.caller = "ancestor"
        => ~Satisfied(res.order_name, res.family_name, res.include_family)

(* the walk stopped with ancestors left over *)
C6_Witness ==
    /\ Resolved
    /\ res.fetches >= 1
    /\ res.i < Len(res.ancestor_ids)
    /\ Satisfied(res.order_name, res.family_name, res.include_family)

(* the scenario of C7: a species under kingdom 1, order 2, family 3, resolved with
   family, every request answered with its taxon *)
C7_Scenario ==
    /\ Resolved
    /\ res.current_rank = "species"
    /\ res.ancestor_ids = <<<<"1">>, <<"2">>, <<"3">>>>
    /\ res.include_family
    /\ remote.faults = MaxResolveFaults
    /\ res.hits = res.fetches

C7_BothNames ==
    /\ result.order_name = "Agaricales"
    /\ result.family_name = "Amanitaceae"
    /\ result.error = None

(* C7 as stated: in the scenario there are exactly two ancestor fetches and both
   names are returned. *)
C7_TwoFetches == C7_Scenario => (res.fetches = 2 /\ C7_BothNames)

(* C7 amended: in the scenario every ancestor is fetched, the kingdom included:
   exactly three ancestor fetches, and both names are returned. *)
C7_ThreeFetches == C7_Scenario => (res.fetches = 3 /\ C7_BothNames)

C7_Witness == C7_Scenario /\ res.fetches = 3

(* the scenario of C8: the observation's taxon is an order with a name and an
   ancestry *)
C8_Scenario ==
    /\ Resolved
    /\ res.current_rank = "order"
    /\ Truthy(res.current_rank_name)
    /\ res.ancestor_ids # <<>>

(* C8 as stated: the order's own name is returned without error and no ancestor is
   fetched, with and without family. *)
C8_NoFetchEitherWay ==
    C8_Scenario => /\ result.order_name = res.current_rank_name
                   /\ result.error = None
                   /\ res.fetches = 0

(* C8 amended: the order's own name is returned without error, with and without
   family; no ancestor is fetched without family, and with family the ancestry is
   walked for a family. *)
C8_NoFetchWithoutFamily ==
    C8_Scenario => /\ result.order_name = res.current_rank_name
                   /\ result.error = None
                   /\ ~res.include_family => res.fetches = 0
                   /\ res.include_family => res.fetches >= 1

C8_Witness == C8_Scenario /\ res.include_family /\ res.fetches >= 1

(* an id has been passed to get_observation_taxonomy and is not yet counted *)
InFlight == pc \notin {"batch", "obs", "done"}

(* C9: the per-order counts and the unknown-order count add up to the number of ids
   dispatched, the one being resolved not yet counted. *)
C9_CountsAddUp ==
    BagCardinality(m.order_counter) + m.unknown_order_count
        = Len(dispatched) - (IF InFlight THEN 1 ELSE 0)

(* a finished run that counted an order and an exception *)
C9_Witness ==
    /\ pc = "done"
    /\ BagCardinality(m.order_counter) >= 1
    /\ m.unknown_order_count >= 1
    /\ m.failed_observations # <<>>

(* line 316 catches an exception of this tuple's processing *)
RaisesUnexpected ==
    /\ Truthy(result.error)
    /\ Truthy(result.current_rank)
    /\ Truthy(result.current_rank_name)
    /\ CapitalizeRaises(result.current_rank)

(* the ids from the start index on *)
ToProcess == SubSeq(args.observation_ids, m.start_index + 1, Len(args.observation_ids))

(* C10: the ids dispatched are always the first of the ids from the start index on,
   in order; the run stops only when all of them were dispatched; an id whose
   processing raised is counted as unknown order and appended to the failed ids, and
   the loop goes on. *)
C10_EveryIdDispatched ==
    /\ [](/\ Len(dispatched) <= Len(ToProcess)
          /\ dispatched = SubSeq(ToProcess, 1, Len(dispatched))
          /\ pc = "done" => dispatched = ToProcess
          /\ pc # "done" => ENABLED Next)
    /\ [][(Classify /\ RaisesUnexpected) =>
            /\ m'.unknown_order_count = m.unknown_order_count + 1
            /\ m'.failed_observations = Append(m.failed_observations, res.observation_id)
            /\ pc' = "obs"]_vars

(* the first id raised and the second was still dispatched *)
C10_Witness ==
    /\ pc = "done"
    /\ m.start_index = 0
    /\ m.failed_observations = <<101>>
    /\ Len(dispatched) >= 2

(* C11: an error status other than 429, or a body that cannot be parsed, ends the
   call at once: the call raises, this request was its last, nothing is slept and
   the limiter's min_delay is what it was. *)
C11_FailsImmediately ==
    /\ [][(RespondHttpError \/ RespondMalformed) =>
            /\ pc' = "ret"
            /\ ret'.kind = "raise"
            /\ req'.requests = req.requests + 1
            /\ now' = now
            /\ slept' = 0
            /\ rate_limiter'.min_delay = rate_limiter.min_delay]_vars
    /\ [][pc = "ret" => (req'.requests = req.requests \/ req'.requests = 0)]_vars

(* the second request of a call with attempts left was answered with an error
   status other than 429, after a 429 had raised min_delay *)
C11_Witness ==
    /\ pc = "ret"
    /\ ret.kind = "raise"
    /\ ret.exc = "HTTPError"
    /\ req.retries = 3
    /\ req.requests = 2
    /\ rate_limiter.min_delay > req.min_delay

(* C12: a connection failure with attempts left sleeps min(retry_delay * 2^a,
   max_backoff) and goes on to the next attempt; with none left the call raises the
   connection error, after exactly retries requests; min_delay is never changed by
   a connection failure. *)
C12_ConnectionFailureBacksOff ==
    /\ [][RespondConnectionError =>
            /\ rate_limiter'.min_delay = rate_limiter.min_delay
            /\ IF req.requests + 1 < req.retries
               THEN /\ now' - now = Min(req.retry_delay * Pow2(req.requests),
                                        req.max_backoff)
                    /\ pc' = "wait"
                    /\ ret'.kind = "pending"
               ELSE /\ now' = now
                    /\ pc' = "ret"
                    /\ ret' = Raised("ConnectionError")]_vars
    /\ [](pc = "ret" /\ ret.exc = "ConnectionError" => req.requests = req.retries)

(* a call of three attempts, every one a connection failure: it raised, with
   min_delay as the call set it *)
C12_Witness ==
    /\ pc = "ret"
    /\ ret.exc = "ConnectionError"
    /\ req.retries = 3
    /\ req.requests = 3
    /\ rate_limiter.min_delay = req.min_delay

(* C13: no fetch of an observation or of an ancestor issues more requests than the
   maximum the run was configured with (--retries). *)
C13_RequestsBoundedByRetries ==
    req.caller \in {"observation", "ancestor"} => req.requests <= args.retries

(* C14: called without include_family, get_observation_taxonomy returns no
   family_name, also for an observation whose own taxon is a family. *)
C14_NoFamilyUnlessAsked ==
    (Resolved /\ ~res.include_family) => result.family_name = None

(* C15: an id whose resolution failed, the failure returned as a result with an
   error, is counted as unknown order and is not appended to the failed ids. *)
C15_ErrorResultNeverFailedId ==
    [][(Classify /\ Truthy(result.error)) =>
         /\ m'.unknown_order_count = m.unknown_order_count + 1
         /\ m'.failed_observations = m.failed_observations]_vars

(* the name of the first ancestor of ids that is a family, None when there is none *)
FirstFamilyAncestor(ids) ==
    LET families == {k \in 1..Len(ids) : Taxa(ids[k]).rank = "family"}
    IN IF families = {}
       THEN None
       ELSE Taxa(ids[CHOOSE k \in families : \A j \in families : k <= j]).name

(* the walk is over and found no order *)
C16_WalkedWithoutOrder ==
    /\ Resolved
    /\ res.ancestor_ids # <<>>
    /\ ~Truthy(res.order_name)

(* C16: a walk that ends without an order returns "Could not find order in ancestry
   chain" with no order_name and with the family that was found: the taxon's own
   name when it is a family with a name, else, with include_family, the first
   ancestor that is a family (when every ancestor answered; with ancestors that did
   not answer, that one or none), else none. *)
C16_FamilyKeptWithoutOrder ==
    C16_WalkedWithoutOrder =>
        /\ result.error = "Could not find order in ancestry chain"
        /\ result.order_name = None
        /\ res.fetches = Len(res.ancestor_ids)
        /\ IF res.current_rank = "family" /\ Truthy(res.current_rank_name)
           THEN result.family_name = res.current_rank_name
           ELSE IF ~res.include_family
           THEN result.family_name = None
           ELSE IF res.hits = res.fetches
           THEN result.family_name = FirstFamilyAncestor(res.ancestor_ids)
           ELSE result.family_name \in {None, FirstFamilyAncestor(res.ancestor_ids)}

(* a family of its own name whose ancestry holds a family and no order, every
   ancestor answered: the error comes with the taxon's own name *)
C16_Witness ==
    /\ C16_WalkedWithoutOrder
    /\ res.include_family
    /\ res.current_rank = "family"
    /\ res.hits = res.fetches
    /\ FirstFamilyAncestor(res.ancestor_ids) = "Amanitaceae"
    /\ result.family_name = "Boletales"
    /\ result.error = "Could not find order in ancestry chain"

(* exactly one ancestor fetch gave no taxon, it raised, and a later ancestor is an
   order *)
C17_Scenario ==
    /\ Resolved
    /\ res.failed # <<>>
    /\ res.hits = res.fetches - 1
    /\ \E k \in 1..Len(res.ancestor_ids) :
          k > res.failed[1] /\ Taxa(res.ancestor_ids[k]).rank = "order"

(* C17: an ancestor fetch that raised does not end the resolution: the next
   ancestor of the sequence is fetched, and when a later ancestor is an order the
   result has an order_name, no error, and the rank and name of the observation's
   taxon. *)
C17_FailedAncestorSkipped ==
    /\ [](C17_Scenario =>
            /\ Truthy(result.order_name)
            /\ result.error = None
            /\ result.current_rank = res.current_rank
            /\ result.current_rank_name = res.current_rank_name)
    /\ [][(AncestorFetched /\ ret.kind = "raise" /\ res.i < Len(res.ancestor_ids)) =>
            /\ pc' = "wait"
            /\ req'.caller = "ancestor"
            /\ req'.url.id = res.ancestor_ids[res.i + 1]
            /\ res'.order_name = res.order_name
            /\ res'.family_name = res.family_name]_vars

(* the first ancestor's fetch failed on every one of its attempts and the second
   ancestor gave the order *)
C17_Witness ==
    /\ C17_Scenario
    /\ res.failed = <<1, DefaultRetries>>
    /\ res.current_rank = "species"
    /\ result.order_name = "Agaricales"
    /\ result.error = None

(* a 429 response to a request that is not the call's last *)
C18_RetriedAfter429 == Respond429 /\ req.requests + 1 < req.retries

(* C18: on a 429 at attempt a with attempts left the call sleeps
   min(retry_delay * 2^a, max_backoff), or the larger of that and Retry-After when
   the header is a number (an absent header and one that is no number change
   nothing), and the next request is marked no sooner than that sleep after the
   one that was answered 429. *)
C18_BackoffOn429 ==
    /\ [][C18_RetriedAfter429 =>
            LET computed == Min(req.retry_delay * Pow2(req.attempt), req.max_backoff)
                sleep == IF req'.retry_after = "30"
                         THEN Max(Sec(30), computed)
                         ELSE computed
            IN /\ now' = now + sleep
               /\ slept' = sleep
               /\ req'.attempt = req.attempt + 1
               /\ pc' = "wait"]_vars
    /\ [][(WaitAndIncrement /\ slept > 0) =>
            rate_limiter'.last_call_time >= rate_limiter.last_call_time + slept]_vars

(* the computed backoff of 40 s was larger than the Retry-After of 30 s *)
C18_Witness ==
    /\ pc = "wait"
    /\ req.retry_after = "30"
    /\ req.attempt = 1
    /\ slept = Sec(40)

(* the batches the run has, counted from the ids *)
NumBatches == (Len(ToProcess) + args.batch_size - 1) \div args.batch_size

(* the pauses due so far: one before every batch begun but the first *)
C19_PausesDue ==
    IF args.batch_pause <= 0 THEN 0
    ELSE IF pc \in {"batch", "done"}
    THEN (IF m.batch_num = 0 THEN 0 ELSE m.batch_num - 1)
    ELSE m.batch_num

(* C19: with a positive batch pause the run pauses once before every batch but the
   first, for batch_pause seconds, and at no other point: never inside a batch, and
   k - 1 times over k batches; with no batch pause it never pauses. *)
C19_OnePauseBetweenBatches ==
    /\ [](/\ m.pauses = C19_PausesDue
          /\ pc = "done" => m.pauses = (IF args.batch_pause > 0 THEN NumBatches - 1 ELSE 0))
    /\ [][m'.pauses # m.pauses =>
            /\ pc = "batch" /\ pc' = "obs"
            /\ m.batch_num > 0
            /\ m'.pauses = m.pauses + 1
            /\ now' = now + args.batch_pause]_vars

(* a finished run of two batches that paused once *)
C19_Witness ==
    /\ pc = "done"
    /\ args.batch_pause > 0
    /\ NumBatches = 2
    /\ m.pauses = 1

(* C20: with family tracking on, the count of unknown families under unknown orders
   equals the count of unknown orders at every point of the run, and every
   classification moves both by the same amount, a result with a known family_name
   and an error included. *)
C20_UnknownFamilyFollowsUnknownOrder ==
    /\ [](args.family =>
            m.unknown_family_unknown_order_count = m.unknown_order_count)
    /\ [][(Classify /\ args.family /\ Truthy(result.error)) =>
            /\ m'.unknown_order_count = m.unknown_order_count + 1
            /\ m'.unknown_family_unknown_order_count
                  = m.unknown_family_unknown_order_count + 1]_vars

(* with an unknown order already counted, an error result that carries a family
   name is about to be counted *)
C20_Witness ==
    /\ Resolved
    /\ args.family
    /\ Truthy(result.error)
    /\ Truthy(result.family_name)
    /\ m.unknown_order_count >= 1
    /\ m.unknown_family_unknown_order_count = m.unknown_order_count

====
